---------------------------- MODULE Spec2Model ----------------------------
(***************************************************************************)
(* Model of the gemini-chat edge function                                  *)
(* (supabase/functions/gemini-chat/index.ts, the handler of lines 109-308).*)
(*                                                                         *)
(* One request is followed from its arrival to its response.  Every        *)
(* action is one synchronous stretch of the handler, from the resolution   *)
(* of one `await` to the next `await` or to the returned Response.         *)
(*                                                                         *)
(* Strings that the code builds by concatenation are sequences of string   *)
(* chunks: concatenation is \o, and a string is empty when all its chunks  *)
(* are.  JavaScript's undefined is the marker Undefined.                   *)
(***************************************************************************)
EXTENDS Naturals, Sequences, FiniteSets

\* ------------------------------------------------------------------ bounds
MaxHist == 2
MaxDocs == 2

\* ------------------------------------------------------- values and helpers
Undefined == "<undefined>"

\* JavaScript truthiness of a string-or-undefined value (!x, x || y, x ? a : b)
Truthy(v) == v # Undefined /\ v # ""

\* truthiness of a concatenated string: it has at least one character
StrTruthy(s) == \E i \in 1..Len(s) : s[i] # ""

SeqsUpTo(S, n) == UNION {[1..k -> S] : k \in 0..n}

RECURSIVE Join(_, _)
\* Array.prototype.join: the elements separated by sep
Join(blocks, sep) ==
  IF Len(blocks) = 0 THEN <<>>
  ELSE IF Len(blocks) = 1 THEN blocks[1]
  ELSE blocks[1] \o sep \o Join(Tail(blocks), sep)

\* --------------------------------------------------------- request inputs
Methods == {"OPTIONS", "POST"}
\* the Origin header: absent, the legacy site, another site
Origins == {Undefined, "https://vibe-coding-chat.example", "https://lily.example"}
AuthHeaders == {Undefined, "Bearer jwt"}

\* variant: the origin is compared with === instead of includes
OriginIncludesLegacy_ExactMatch(o) == o = "vibe-coding-chat"

OriginIncludesLegacy(o) == o = "https://vibe-coding-chat.example"

Roles == {"user", "assistant", "system"}
Texts == {"t1", "t2"}
Turns == [role : Roles, content : Texts]

NoHistory == [defined |-> FALSE, turns |-> <<>>]
Histories == {NoHistory} \cup {[defined |-> TRUE, turns |-> h] : h \in SeqsUpTo(Turns, MaxHist)}

Messages == {Undefined, "", "Hello"}
Models == {Undefined, "gemini-pro"}

InvalidBody == [valid |-> FALSE, message |-> Undefined, chatHistory |-> NoHistory, model |-> Undefined]
Bodies == {InvalidBody} \cup
          [valid : {TRUE}, message : Messages, chatHistory : Histories, model : Models]

Requests == [method : Methods, origin : Origins, authorization : AuthHeaders, body : Bodies]

\* ------------------------------------------------------- the document store
\* similarity scores in tenths (0.5 is 5)
Scores == {3, 4, 6, 8}
Filenames == {Undefined, "", "brief.pdf", "notes.txt"}
Contents == {"c1", "c2"}
Docs == [filename : Filenames, content : Contents, similarity : Scores]
DocPool == {d \in Docs :
              \/ d.filename = "brief.pdf" /\ d.content = "c1" /\ d.similarity \in {8, 4}
              \/ d.filename = "notes.txt" /\ d.content = "c2" /\ d.similarity \in {6, 3}
              \/ d.filename = Undefined /\ d.content = "c2" /\ d.similarity = 8
              \/ d.filename = "" /\ d.content = "c1" /\ d.similarity = 6}

\* what the store holds for a query, best match first
Corpora == {c \in SeqsUpTo(DocPool, MaxDocs) :
              \A i \in 1..Len(c) : \A j \in i..Len(c) : c[i].similarity >= c[j].similarity}

RECURSIVE SelectAbove(_, _)
SelectAbove(c, threshold) ==
  IF Len(c) = 0 THEN <<>>
  ELSE IF Head(c).similarity >= threshold
       THEN <<Head(c)>> \o SelectAbove(Tail(c), threshold)
       ELSE SelectAbove(Tail(c), threshold)

Take(s, n) == IF Len(s) <= n THEN s ELSE SubSeq(s, 1, n)

\* the match_documents function of the store: the passages that clear the
\* threshold, best first, at most match_count of them
MatchDocuments(c, params) ==
  Take(SelectAbove(c, params.match_threshold), params.match_count)

\* variant: the search is asked for every passage, whatever its score
SearchParams_NoThreshold == [match_threshold |-> 0, match_count |-> 5]

\* the arguments of the rpc call
SearchParams == [match_threshold |-> 5, match_count |-> 5]

\* ------------------------------------------------------ context assembly
\* doc.metadata?.filename || 'Unknown'
SourceLabel(doc) == IF Truthy(doc.filename) THEN doc.filename ELSE "Unknown"

\* `--- source: ${label} ---\n${doc.content}`
FormatDoc(doc) == <<"--- source: ", SourceLabel(doc), " ---\n", doc.content>>

BlockSeparator == <<"\n\n">>

\* variant: the blocks are emitted last passage first
AssembleContext_Reversed(documents) ==
  Join([i \in 1..Len(documents) |-> FormatDoc(documents[Len(documents) + 1 - i])], BlockSeparator)

\* documents.map(...).join("\n\n")
AssembleContext(documents) ==
  Join([i \in 1..Len(documents) |-> FormatDoc(documents[i])], BlockSeparator)

\* ------------------------------------------------------- prompt building
\* the persona text (six lines, no trailing newline)
PersonaTemplate == <<"You are Lily, a professional AI creative partner. [...] Keep a natural, warm tone.">>

ContextHeading == <<"\n[related knowledge base data]\nbackground found in the director's database:\n\n">>
CitationNote == <<"\n\n(blend cited data into the answer naturally)">>

\* variant: the heading is emitted whether or not there is a context
SystemPromptText_AlwaysHeading(ctx) ==
  PersonaTemplate \o <<"\n\n">> \o ContextHeading \o ctx \o CitationNote

\* the template literal of systemPromptText
SystemPromptText(ctx) ==
  PersonaTemplate \o <<"\n\n">> \o
    (IF StrTruthy(ctx) THEN ContextHeading \o ctx \o CitationNote ELSE <<>>)

\* variant: only "assistant" becomes the non-user role
MapRole_AssistantOnly(role) == IF role = "assistant" THEN "model" ELSE "user"

\* msg.role === "user" ? "user" : "model"
MapRole(role) == IF role = "user" THEN "user" ELSE "model"

MapTurn(msg) == [role |-> MapRole(msg.role), parts |-> <<[text |-> msg.content]>>]

\* variant: the current message is put in front of the history
BuildContents_Unshift(history, msg) ==
  <<[role |-> "user", parts |-> <<[text |-> msg]>>]>>
    \o (IF history.defined THEN [i \in 1..Len(history.turns) |-> MapTurn(history.turns[i])] ELSE <<>>)

\* chatHistory?.map(...) || [] followed by contents.push(current message)
BuildContents(history, msg) ==
  (IF history.defined THEN [i \in 1..Len(history.turns) |-> MapTurn(history.turns[i])] ELSE <<>>)
    \o <<[role |-> "user", parts |-> <<[text |-> msg]>>]>>

DefaultModel == "gemini-3-flash-preview"
\* model || "gemini-3-flash-preview"
ModelNameOf(model) == IF Truthy(model) THEN model ELSE DefaultModel

\* temperature and topP in hundredths
GenerationConfig == [temperature |-> 90, topK |-> 40, topP |-> 95, maxOutputTokens |-> 2048]

NoRequest == [model |-> Undefined, contents |-> <<>>,
              generationConfig |-> GenerationConfig, systemInstruction |-> <<>>]

GenerateRequest(model, contents, prompt) ==
  [model |-> model, contents |-> contents,
   generationConfig |-> GenerationConfig, systemInstruction |-> prompt]


\* ---------------------------------------------------- responses and errors
NoResponse == [status |-> 0, kind |-> "none", body |-> [none |-> <<>>]]

\* new Response("ok", { headers: corsHeaders })
PreflightResponse == [status |-> 200, kind |-> "text", body |-> [text |-> <<"ok">>]]

\* the 403 of the legacy-origin block
MigratedResponse == [status |-> 403, kind |-> "text",
                     body |-> [text |-> <<"This API endpoint has migrated. Please use the new secure URL.">>]]

\* the outer catch: JSON.stringify({ error: error.message }), status 500
ErrorResponse(msg) == [status |-> 500, kind |-> "json", body |-> [error |-> msg]]

\* JSON.stringify({ response: aiText }), default status 200
ReplyResponse(aiText) == [status |-> 200, kind |-> "json", body |-> [response |-> aiText]]

ApiKeyMissingMessage == <<"GEMINI_API_KEY not configured">>
MissingMessage == <<"Message is required">>

\* messages of the errors the runtime raises
FetchFailure == <<"error sending request">>
BodyReadFailure == <<"error reading a body from connection">>
JsonSyntaxFailure == <<"Unexpected token in JSON">>

\* the bodies of non-success answers, as text() yields them
EmbeddingErrorBody == "embedding service error body"
GeminiErrorBody == "generation service error body"

GeminiStatuses == {200, 429, 503}
\* Response.ok
IsOk(status) == status >= 200 /\ status <= 299

\* the status code as it prints inside a template literal
StatusText(status) ==
  CASE status = 200 -> "200"
    [] status = 429 -> "429"
    [] status = 503 -> "503"
    [] OTHER -> "000"

\* variant: the upstream error body is put into the thrown message
GeminiErrorMessage_WithBody(status) ==
  <<"Gemini API error: ", StatusText(status), " ", GeminiErrorBody>>

\* `Gemini API error: ${geminiResponse.status}`
GeminiErrorMessage(status) == <<"Gemini API error: ", StatusText(status)>>

FallbackReply == "Sorry, I cannot generate a reply."
\* what data.candidates?.[0]?.content?.parts?.[0]?.text can be
CandidateTexts == {Undefined, "", "Hi, director."}
\* variant: the fallback replaces only an absent text (?? instead of ||)
AiText_NullishOnly(text) == IF text # Undefined THEN text ELSE FallbackReply

\* text || fallback
AiText(text) == IF Truthy(text) THEN text ELSE FallbackReply

DefaultEmail == "eyenote@gmail.com"
\* what auth.getUser yields as data.user
AuthUsers == {Undefined, "someone@example.com"}

\* ------------------------------------------------------------------- state
VARIABLES
  req,               \* the incoming request
  geminiApiKey,      \* TRUE when the GEMINI_API_KEY variable is set
  pc,                \* where the handler is suspended
  user, userEmail,   \* result of the user lookup
  userLookups,       \* number of auth.getUser calls
  bodyReads,         \* number of req.json() calls
  message, chatHistory, modelName,
  retrievedContext,
  corpus,            \* what the store held when it was searched
  documents,         \* what the search returned
  embedState, searchState, genState,
  embedCalls, searchCalls, genCalls,
  genRequest,        \* the request body sent to the generation service
  geminiStatus,      \* status of the generation response, 0 before it arrives
  candidateText,     \* the text found in the generation response
  consoleErrors,     \* upstream error bodies written by console.error
  response           \* the Response returned to the caller

input == <<req, geminiApiKey>>
auth == <<user, userEmail, userLookups>>
locals == <<message, chatHistory, modelName, bodyReads>>
rag == <<retrievedContext, corpus, documents, embedState, searchState, embedCalls, searchCalls>>
gen == <<genState, genCalls, genRequest, geminiStatus, candidateText>>
vars == <<input, pc, auth, locals, rag, gen, consoleErrors, response>>

Init ==
  /\ req \in Requests
  /\ geminiApiKey \in BOOLEAN
  /\ pc = "start"
  /\ user = Undefined
  /\ userEmail = Undefined
  /\ userLookups = 0
  /\ bodyReads = 0
  /\ message = Undefined
  /\ chatHistory = NoHistory
  /\ modelName = Undefined
  /\ retrievedContext = <<>>
  /\ corpus = <<>>
  /\ documents = <<>>
  /\ embedState = "idle"
  /\ searchState = "idle"
  /\ genState = "idle"
  /\ embedCalls = 0
  /\ searchCalls = 0
  /\ genCalls = 0
  /\ genRequest = NoRequest
  /\ geminiStatus = 0
  /\ candidateText = Undefined
  /\ consoleErrors = {}
  /\ response = NoResponse

\* return a Response
Respond(r) == response' = r /\ pc' = "done"

\* ------------------------------------------------- guards before the chat
\* if (req.method === "OPTIONS") return ok
Preflight ==
  /\ pc = "start"
  /\ req.method = "OPTIONS"
  /\ Respond(PreflightResponse)
  /\ UNCHANGED <<input, auth, locals, rag, gen, consoleErrors>>

\* origin && origin.includes("vibe-coding-chat") -> 403
BlockLegacyOrigin ==
  /\ pc = "start"
  /\ req.method # "OPTIONS"
  /\ OriginIncludesLegacy(req.origin)
  /\ Respond(MigratedResponse)
  /\ UNCHANGED <<input, auth, locals, rag, gen, consoleErrors>>

\* variant: the API key is not checked before the body is read
AfterUserLookup_KeyNotChecked(authUser) ==
  /\ user' = authUser
  /\ userEmail' = IF authUser # Undefined THEN authUser ELSE DefaultEmail
  /\ pc' = "readBody"
  /\ bodyReads' = bodyReads + 1
  /\ UNCHANGED response

\* variant: a request whose token yields no user is rejected
AfterUserLookup_RequireUser(authUser) ==
  /\ user' = authUser
  /\ userEmail' = IF authUser # Undefined THEN authUser ELSE DefaultEmail
  /\ IF req.authorization # Undefined /\ authUser = Undefined
     THEN /\ Respond(ErrorResponse(<<"Unauthorized">>))
          /\ UNCHANGED bodyReads
     ELSE IF ~geminiApiKey
     THEN /\ Respond(ErrorResponse(ApiKeyMissingMessage))
          /\ UNCHANGED bodyReads
     ELSE /\ pc' = "readBody"
          /\ bodyReads' = bodyReads + 1
          /\ UNCHANGED response

\* from the end of the user lookup to `await req.json()`:
\* default email, then the API key guard
AfterUserLookup(authUser) ==
  /\ user' = authUser
  /\ userEmail' = IF authUser # Undefined THEN authUser ELSE DefaultEmail
  /\ IF ~geminiApiKey
     THEN /\ Respond(ErrorResponse(ApiKeyMissingMessage))
          /\ UNCHANGED bodyReads
     ELSE /\ pc' = "readBody"
          /\ bodyReads' = bodyReads + 1
          /\ UNCHANGED response

\* an Authorization header: await supabaseClient.auth.getUser(token)
StartUserLookup ==
  /\ pc = "start"
  /\ req.method # "OPTIONS"
  /\ ~OriginIncludesLegacy(req.origin)
  /\ req.authorization # Undefined
  /\ pc' = "getUser"
  /\ userLookups' = userLookups + 1
  /\ UNCHANGED <<input, user, userEmail, locals, rag, gen, consoleErrors, response>>

\* no Authorization header: the lookup is skipped
SkipUserLookup ==
  /\ pc = "start"
  /\ req.method # "OPTIONS"
  /\ ~OriginIncludesLegacy(req.origin)
  /\ req.authorization = Undefined
  /\ AfterUserLookup(Undefined)
  /\ UNCHANGED <<input, userLookups, message, chatHistory, modelName, rag, gen, consoleErrors>>

\* getUser resolves, with a user or without one
UserLookupResolved ==
  /\ pc = "getUser"
  /\ \E authUser \in AuthUsers : AfterUserLookup(authUser)
  /\ UNCHANGED <<input, userLookups, message, chatHistory, modelName, rag, gen, consoleErrors>>

\* ------------------------------------------------------- reading the body
\* variant: only an absent message is rejected, an empty one passes
MessageMissing_OnlyUndefined(m) == m = Undefined

\* if (!message) throw
MessageMissing(m) == ~Truthy(m)

\* req.json() rejects: the body is not JSON
ReadBodyRejected ==
  /\ pc = "readBody"
  /\ ~req.body.valid
  /\ Respond(ErrorResponse(JsonSyntaxFailure))
  /\ UNCHANGED <<input, auth, locals, rag, gen, consoleErrors>>

\* req.json() resolves: destructuring, the message guard, the model default,
\* then the embedding request is sent
ReadBodyResolved ==
  /\ pc = "readBody"
  /\ req.body.valid
  /\ message' = req.body.message
  /\ chatHistory' = req.body.chatHistory
  /\ IF MessageMissing(req.body.message)
     THEN /\ Respond(ErrorResponse(MissingMessage))
          /\ UNCHANGED <<modelName, rag>>
     ELSE /\ modelName' = ModelNameOf(req.body.model)
          /\ retrievedContext' = <<>>
          /\ embedCalls' = embedCalls + 1
          /\ embedState' = "inflight"
          /\ pc' = "embedding"
          /\ UNCHANGED <<corpus, documents, searchState, searchCalls, response>>
  /\ UNCHANGED <<input, auth, bodyReads, gen, consoleErrors>>

\* --------------------------------------------------------------- generation
\* variant: without a context, a bare request is sent (no history, default model)
StartGeneration_BareWithoutContext(ctx) ==
  /\ retrievedContext' = ctx
  /\ genRequest' = IF StrTruthy(ctx)
                   THEN GenerateRequest(modelName, BuildContents(chatHistory, message),
                                        SystemPromptText(ctx))
                   ELSE GenerateRequest(DefaultModel, BuildContents(NoHistory, message),
                                        SystemPromptText(ctx))
  /\ genCalls' = genCalls + 1
  /\ genState' = "inflight"
  /\ pc' = "generating"
  /\ UNCHANGED <<input, auth, locals, geminiStatus, candidateText, response>>

\* from the end of the RAG block to the generation fetch: the conversation,
\* the system prompt, then the request is sent
StartGeneration(ctx) ==
  /\ retrievedContext' = ctx
  /\ genRequest' = GenerateRequest(modelName, BuildContents(chatHistory, message),
                                   SystemPromptText(ctx))
  /\ genCalls' = genCalls + 1
  /\ genState' = "inflight"
  /\ pc' = "generating"
  /\ UNCHANGED <<input, auth, locals, geminiStatus, candidateText, response>>

\* ---------------------------------------------------------------- retrieval
\* variant: no RAG catch, the rejection reaches the outer catch
EmbeddingFetchRejected_Abort ==
  /\ pc = "embedding"
  /\ embedState' = "threw"
  /\ Respond(ErrorResponse(FetchFailure))
  /\ UNCHANGED <<input, auth, locals, retrievedContext, corpus, documents,
                 searchState, embedCalls, searchCalls, gen, consoleErrors>>

\* the embedding fetch rejects (transport failure): caught by the RAG catch
EmbeddingFetchRejected ==
  /\ pc = "embedding"
  /\ embedState' = "threw"
  /\ StartGeneration(retrievedContext)
  /\ UNCHANGED <<corpus, documents, searchState, embedCalls, searchCalls, consoleErrors>>

\* variant: the search is sent as soon as the embedding response arrives,
\* while its body is still being read
EmbeddingFetchOk_SearchEarly ==
  /\ pc = "embedding"
  /\ pc' = "embeddingJson"
  /\ embedState' = "reading"
  /\ searchCalls' = searchCalls + 1
  /\ searchState' = "inflight"
  /\ UNCHANGED <<input, auth, locals, retrievedContext, corpus, documents,
                 embedCalls, gen, response, consoleErrors>>

\* the embedding fetch resolves with embeddingResponse.ok
EmbeddingFetchOk ==
  /\ pc = "embedding"
  /\ pc' = "embeddingJson"
  /\ embedState' = "reading"
  /\ UNCHANGED <<input, auth, locals, retrievedContext, corpus, documents,
                 searchState, embedCalls, searchCalls, gen, response, consoleErrors>>

\* the embedding fetch resolves with a non-success status
EmbeddingFetchNotOk ==
  /\ pc = "embedding"
  /\ pc' = "embeddingText"
  /\ embedState' = "readingError"
  /\ UNCHANGED <<input, auth, locals, retrievedContext, corpus, documents,
                 searchState, embedCalls, searchCalls, gen, response, consoleErrors>>

\* embeddingResponse.text() resolves: the error body is logged
EmbeddingErrorLogged ==
  /\ pc = "embeddingText"
  /\ embedState' = "notOk"
  /\ consoleErrors' = consoleErrors \cup {EmbeddingErrorBody}
  /\ StartGeneration(retrievedContext)
  /\ UNCHANGED <<corpus, documents, searchState, embedCalls, searchCalls>>

\* embeddingResponse.text() rejects: caught by the RAG catch
EmbeddingErrorBodyRejected ==
  /\ pc = "embeddingText"
  /\ embedState' = "notOk"
  /\ StartGeneration(retrievedContext)
  /\ UNCHANGED <<corpus, documents, searchState, embedCalls, searchCalls, consoleErrors>>

\* embeddingResponse.json() rejects
EmbeddingJsonRejected ==
  /\ pc = "embeddingJson"
  /\ embedState' = "badJson"
  /\ StartGeneration(retrievedContext)
  /\ UNCHANGED <<corpus, documents, searchState, embedCalls, searchCalls, consoleErrors>>

\* embeddingData.embedding?.values is undefined
EmbeddingWithoutVector ==
  /\ pc = "embeddingJson"
  /\ embedState' = "noVector"
  /\ StartGeneration(retrievedContext)
  /\ UNCHANGED <<corpus, documents, searchState, embedCalls, searchCalls, consoleErrors>>

\* a vector arrived: the rpc("match_documents") call is sent
EmbeddingWithVector ==
  /\ pc = "embeddingJson"
  /\ embedState' = "vector"
  /\ searchCalls' = searchCalls + 1
  /\ searchState' = "inflight"
  /\ pc' = "searching"
  /\ UNCHANGED <<input, auth, locals, retrievedContext, corpus, documents,
                 embedCalls, gen, response, consoleErrors>>

\* the rpc call rejects: caught by the RAG catch
SearchRejected ==
  /\ pc = "searching"
  /\ searchState' = "threw"
  /\ StartGeneration(retrievedContext)
  /\ UNCHANGED <<corpus, documents, embedState, embedCalls, searchCalls, consoleErrors>>

\* variant: a failed search is sent again
SearchFailed_Retry ==
  /\ pc = "searching"
  /\ searchCalls < 3
  /\ searchState' = "inflight"
  /\ searchCalls' = searchCalls + 1
  /\ UNCHANGED <<input, pc, auth, locals, retrievedContext, corpus, documents,
                 embedState, embedCalls, gen, response, consoleErrors>>

\* variant: a search error is thrown on to the outer catch
SearchFailed_Abort ==
  /\ pc = "searching"
  /\ searchState' = "error"
  /\ Respond(ErrorResponse(<<"vector search error">>))
  /\ UNCHANGED <<input, auth, locals, retrievedContext, corpus, documents,
                 embedState, embedCalls, searchCalls, gen, consoleErrors>>

\* the rpc call resolves with an error
SearchFailed ==
  /\ pc = "searching"
  /\ searchState' = "error"
  /\ StartGeneration(retrievedContext)
  /\ UNCHANGED <<corpus, documents, embedState, embedCalls, searchCalls, consoleErrors>>

\* variant: an empty result set is treated as a failure of the request
SearchResolved_EmptyIsError ==
  /\ pc = "searching"
  /\ \E c \in Corpora :
       /\ corpus' = c
       /\ documents' = MatchDocuments(c, SearchParams)
       /\ IF Len(documents') > 0
          THEN /\ searchState' = "docs"
               /\ StartGeneration(AssembleContext(documents'))
          ELSE /\ searchState' = "empty"
               /\ Respond(ErrorResponse(<<"No relevant documents found.">>))
               /\ UNCHANGED <<input, auth, locals, retrievedContext, gen>>
  /\ UNCHANGED <<embedState, embedCalls, searchCalls, consoleErrors>>

\* the rpc call resolves with data: the context is assembled when there is
\* at least one document
SearchResolved ==
  /\ pc = "searching"
  /\ \E c \in Corpora :
       /\ corpus' = c
       /\ documents' = MatchDocuments(c, SearchParams)
       /\ IF Len(documents') > 0
          THEN /\ searchState' = "docs"
               /\ StartGeneration(AssembleContext(documents'))
          ELSE /\ searchState' = "empty"
               /\ StartGeneration(retrievedContext)
  /\ UNCHANGED <<embedState, embedCalls, searchCalls, consoleErrors>>

\* ------------------------------------------------- the generation response
\* the generation fetch rejects: the outer catch answers
GenerationFetchRejected ==
  /\ pc = "generating"
  /\ genState' = "threw"
  /\ Respond(ErrorResponse(FetchFailure))
  /\ UNCHANGED <<input, auth, locals, rag, genCalls, genRequest, geminiStatus, candidateText, consoleErrors>>

\* the generation fetch resolves with some status
GenerationFetchResolved ==
  /\ pc = "generating"
  /\ \E status \in GeminiStatuses :
       /\ geminiStatus' = status
       /\ IF IsOk(status)
          THEN pc' = "generationJson" /\ genState' = "reading"
          ELSE pc' = "generationText" /\ genState' = "readingError"
  /\ UNCHANGED <<input, auth, locals, rag, genCalls, genRequest, candidateText, response, consoleErrors>>

\* variant: the handler ends without returning a Response
GenerationErrorThrown_NoReturn ==
  /\ pc = "generationText"
  /\ genState' = "notOk"
  /\ pc' = "done"
  /\ consoleErrors' = consoleErrors \cup {GeminiErrorBody}
  /\ UNCHANGED <<input, auth, locals, rag, genCalls, genRequest, geminiStatus,
                 candidateText, response>>

\* geminiResponse.text() resolves: the error with the status is thrown
GenerationErrorThrown ==
  /\ pc = "generationText"
  /\ genState' = "notOk"
  /\ consoleErrors' = consoleErrors \cup {GeminiErrorBody}
  /\ Respond(ErrorResponse(GeminiErrorMessage(geminiStatus)))
  /\ UNCHANGED <<input, auth, locals, rag, genCalls, genRequest, geminiStatus, candidateText>>

\* geminiResponse.text() rejects: that error reaches the outer catch
GenerationErrorBodyRejected ==
  /\ pc = "generationText"
  /\ genState' = "errorBodyLost"
  /\ Respond(ErrorResponse(BodyReadFailure))
  /\ UNCHANGED <<input, auth, locals, rag, genCalls, genRequest, geminiStatus, candidateText, consoleErrors>>

\* geminiResponse.json() rejects
GenerationJsonRejected ==
  /\ pc = "generationJson"
  /\ genState' = "badJson"
  /\ Respond(ErrorResponse(JsonSyntaxFailure))
  /\ UNCHANGED <<input, auth, locals, rag, genCalls, genRequest, geminiStatus, candidateText, consoleErrors>>

\* geminiResponse.json() resolves: the reply, or the fallback text
GenerationReplied ==
  /\ pc = "generationJson"
  /\ genState' = "replied"
  /\ \E text \in CandidateTexts :
       /\ candidateText' = text
       /\ Respond(ReplyResponse(<<AiText(text)>>))
  /\ UNCHANGED <<input, auth, locals, rag, genCalls, genRequest, geminiStatus, consoleErrors>>

\* ---------------------------------------------------------- specification
Next ==
  \/ Preflight
  \/ BlockLegacyOrigin
  \/ StartUserLookup
  \/ SkipUserLookup
  \/ UserLookupResolved
  \/ ReadBodyRejected
  \/ ReadBodyResolved
  \/ EmbeddingFetchRejected
  \/ EmbeddingFetchOk
  \/ EmbeddingFetchNotOk
  \/ EmbeddingErrorLogged
  \/ EmbeddingErrorBodyRejected
  \/ EmbeddingJsonRejected
  \/ EmbeddingWithoutVector
  \/ EmbeddingWithVector
  \/ SearchRejected
  \/ SearchFailed
  \/ SearchResolved
  \/ GenerationFetchRejected
  \/ GenerationFetchResolved
  \/ GenerationErrorThrown
  \/ GenerationErrorBodyRejected
  \/ GenerationJsonRejected
  \/ GenerationReplied

Spec == Init /\ [][Next]_vars

\* every pending call resolves: a step that can be taken is eventually taken
FairSpec == Spec /\ WF_vars(Next)

TypeOK ==
  /\ req \in Requests
  /\ pc \in {"start", "getUser", "readBody", "embedding", "embeddingJson", "embeddingText",
             "searching", "generating", "generationJson", "generationText", "done"}
  /\ embedCalls \in 0..3 /\ searchCalls \in 0..3 /\ genCalls \in 0..3
  /\ Len(documents) <= MaxDocs + 1

\* ------------------------------------------------------------- properties
EmbeddingFailed == embedState \in {"threw", "notOk", "badJson", "noVector"}
SearchingFailed == searchState \in {"threw", "error"}
RetrievalFailed == EmbeddingFailed \/ SearchingFailed

SystemPrompt == genRequest.systemInstruction
HeadingIn(prompt) == \E i \in 1..Len(prompt) : prompt[i] = ContextHeading[1]
HasReply == response.kind = "json" /\ "response" \in DOMAIN response.body
HasError == response.kind = "json" /\ "error" \in DOMAIN response.body

\* C1: once the embedding call or the similarity search has failed (rejected
\* fetch, non-success status, unreadable body, missing vector, search error),
\* the generation request has been sent, its context block is the empty
\* string and its system prompt carries no context heading; the request
\* never ends without the generation call having been made.
C1_RetrievalFailureStillGenerates ==
  RetrievalFailed =>
    /\ Truthy(message)
    /\ genCalls = 1
    /\ genState # "idle"
    /\ ~StrTruthy(retrievedContext)
    /\ ~HeadingIn(SystemPrompt)

C1_Witness ==
  /\ pc = "done"
  /\ RetrievalFailed
  /\ genCalls = 1
  /\ HasReply

\* C2: when the generation service has answered with a non-success status
\* and the request is over, the response is an error that names the upstream
\* status code and has no reply field.
C2_GenerationFailureCarriesStatus ==
  (pc = "done" /\ geminiStatus # 0 /\ ~IsOk(geminiStatus)) =>
    /\ HasError
    /\ ~HasReply
    /\ \E i \in 1..Len(response.body.error) :
         response.body.error[i] = StatusText(geminiStatus)

\* a request without a usable message: no JSON body, no message, or ""
EmptyMessage(r) == ~r.body.valid \/ r.body.message \in {Undefined, ""}
NoExternalCall == embedCalls = 0 /\ searchCalls = 0 /\ genCalls = 0

AllBelowThreshold(c) == \A i \in 1..Len(c) : c[i].similarity < 5
SearchAnswered == searchState \in {"docs", "empty"}

ContextUnderHeading(prompt, ctx) ==
  \E k \in 1..Len(prompt) :
    /\ prompt[k] = ContextHeading[1]
    /\ \A j \in 1..Len(prompt) : prompt[j] = ContextHeading[1] => j = k
    /\ k + Len(ctx) <= Len(prompt)
    /\ SubSeq(prompt, k + 1, k + Len(ctx)) = ctx

StartsWithPersona(prompt) ==
  /\ Len(prompt) >= Len(PersonaTemplate)
  /\ SubSeq(prompt, 1, Len(PersonaTemplate)) = PersonaTemplate

C5_WitnessEmpty ==
  /\ genCalls = 1
  /\ searchState = "empty"
  /\ SystemPrompt = PersonaTemplate \o <<"\n\n">>

\* the i-th block of a context block starts after 5 * (i - 1) chunks:
\* four chunks per block and one per separator
BlockAt(ctx, i, doc) ==
  LET o == 5 * (i - 1) IN
    /\ o + 4 <= Len(ctx)
    /\ ctx[o + 1] = "--- source: "
    /\ ctx[o + 2] = (IF doc.filename \in {Undefined, ""} THEN "Unknown" ELSE doc.filename)
    /\ ctx[o + 3] = " ---\n"
    /\ ctx[o + 4] = doc.content

\* C6: when the search returned a non-empty sequence of passages, the
\* context block consists of exactly one block per passage (source label,
\* then content), in the order the search returned them, consecutive blocks
\* separated by a blank line, and of nothing else.
C6_ContextBlockPreservesOrder ==
  searchState = "docs" =>
    LET n == Len(documents) IN
      /\ n > 0
      /\ Len(retrievedContext) = 4 * n + (n - 1)
      /\ \A i \in 1..n : BlockAt(retrievedContext, i, documents[i])
      /\ \A i \in 1..(n - 1) : retrievedContext[5 * i] = "\n\n"

C6_Witness ==
  /\ searchState = "docs"
  /\ Len(documents) = MaxDocs
  /\ documents[1] # documents[2]
  /\ documents[1].filename = Undefined
  /\ genCalls = 1

HistoryLength(h) == IF h.defined THEN Len(h.turns) ELSE 0

\* C7: the conversation sent to generation has one entry more than the
\* history of the request (none for an absent history), and its last entry
\* is the current message with role "user".
C7_ConversationLength ==
  genCalls = 1 =>
    LET contents == genRequest.contents IN
      /\ Len(contents) = HistoryLength(req.body.chatHistory) + 1
      /\ contents[Len(contents)].role = "user"
      /\ contents[Len(contents)].parts = <<[text |-> req.body.message]>>

C7_Witness ==
  /\ genCalls = 1
  /\ HistoryLength(req.body.chatHistory) = MaxHist
  /\ req.body.chatHistory.turns[MaxHist].role = "assistant"
  /\ Len(genRequest.contents) = MaxHist + 1

\* C8: entry i of the conversation sent to generation carries the text of
\* history turn i; its role is "user" exactly when the turn's role is
\* "user", and the same non-user role "model" for every other role,
\* unrecognized ones included.
C8_RolesNormalizedInOrder ==
  genCalls = 1 =>
    LET contents == genRequest.contents
        turns == req.body.chatHistory.turns
    IN \A i \in 1..Len(turns) :
         /\ i < Len(contents)
         /\ contents[i].parts = <<[text |-> turns[i].content]>>
         /\ contents[i].role \in {"user", "model"}
         /\ contents[i].role = "user" <=> turns[i].role = "user"

C8_Witness ==
  /\ pc = "done"
  /\ HasReply
  /\ Len(req.body.chatHistory.turns) = 2
  /\ req.body.chatHistory.turns[1].role = "system"
  /\ req.body.chatHistory.turns[2].role = "user"
  /\ genRequest.contents[1].role = "model"

\* C9: within one request the embedding call, the similarity search and the
\* generation call are each made at most once.
C9_EachCallAtMostOnce ==
  /\ embedCalls <= 1
  /\ searchCalls <= 1
  /\ genCalls <= 1

C9_Witness ==
  /\ pc = "done"
  /\ searchState = "error"
  /\ genState = "notOk"
  /\ embedCalls = 1 /\ searchCalls = 1 /\ genCalls = 1

EmbeddingPending == embedState \in {"inflight", "reading", "readingError"}
SearchPending == searchState = "inflight"
GenerationPending == genState \in {"inflight", "reading", "readingError"}

\* C10: the search is sent only once the embedding call has resolved with a
\* vector; the generation request is sent only once retrieval is over (the
\* search has resolved, or the embedding ended without a vector); no two of
\* the three calls are ever pending together.
C10_CallsStrictlySequential ==
  /\ searchCalls > 0 => embedState = "vector"
  /\ genCalls > 0 =>
       /\ embedCalls = 1
       /\ ~EmbeddingPending
       /\ ~SearchPending
       /\ embedState = "vector" => searchState \in {"docs", "empty", "error", "threw"}
       /\ embedState # "vector" => EmbeddingFailed /\ searchCalls = 0
  /\ ~(EmbeddingPending /\ SearchPending)
  /\ ~(EmbeddingPending /\ GenerationPending)
  /\ ~(SearchPending /\ GenerationPending)

C10_Witness ==
  /\ pc = "generating"
  /\ embedState = "vector"
  /\ searchState = "docs"
  /\ embedCalls = 1 /\ searchCalls = 1 /\ genCalls = 1

\* C11: when the generation call succeeded and its parsed response holds no
\* text (absent or empty), the request ends with a 200 reply whose text is
\* the fixed fallback string, and with no error.
C11_FallbackReplyOnEmptyText ==
  (pc = "done" /\ genState = "replied" /\ candidateText \in {Undefined, ""}) =>
    /\ IsOk(geminiStatus)
    /\ response.status = 200
    /\ HasReply
    /\ ~HasError
    /\ response.body.response = <<FallbackReply>>

C11_Witness ==
  /\ pc = "done"
  /\ genState = "replied"
  /\ candidateText = ""
  /\ response.body = [response |-> <<FallbackReply>>]

GenerationFailed == genState \in {"threw", "notOk", "errorBodyLost", "badJson"}
ErrorResult == pc = "done" /\ response.status >= 400
MessageAbsent == req.body.valid /\ req.body.message \in {Undefined, ""}

ChatRequest == req.method # "OPTIONS"

ReplyResult == HasReply /\ ~HasError /\ response.status = 200
\* an error with its message: the JSON error of the catch, or the 403 notice
FailureResult ==
  /\ response.status >= 400
  /\ ~HasReply
  /\ \/ HasError /\ StrTruthy(response.body.error)
     \/ response.kind = "text" /\ StrTruthy(response.body.text)

\* C13: when every pending call resolves, every request eventually ends; a
\* chat request that has ended has exactly one result, a reply or an error
\* with a status and a message, never both and never neither.
C13_TerminatesWithOneResult ==
  /\ <>(pc = "done")
  /\ [](pc = "done" => response # NoResponse)
  /\ []((pc = "done" /\ ChatRequest) =>
          /\ ReplyResult \/ FailureResult
          /\ ~(ReplyResult /\ FailureResult))

C13_Witness ==
  /\ pc = "done"
  /\ genCalls = 1
  /\ searchCalls = 1
  /\ ReplyResult
  /\ candidateText = "Hi, director."

\* the conversation that belongs to a request body: one entry per history
\* turn, then the message
ConversationOf(body, contents) ==
  LET turns == body.chatHistory.turns IN
    /\ Len(contents) = Len(turns) + 1
    /\ \A i \in 1..Len(turns) :
         /\ contents[i].parts = <<[text |-> turns[i].content]>>
         /\ contents[i].role = (IF turns[i].role = "user" THEN "user" ELSE "model")
    /\ contents[Len(contents)] = [role |-> "user", parts |-> <<[text |-> body.message]>>]

\* C14: whatever retrieval gave (passages, nothing, an embedding failure, a
\* search failure), the conversation, the model name and the generation
\* parameters of the generation request are given by the request body alone,
\* and the system prompt differs from persona + blank line only by the
\* context section.
C14_RequestIndependentOfRetrieval ==
  genCalls = 1 =>
    /\ ConversationOf(req.body, genRequest.contents)
    /\ genRequest.model = (IF req.body.model \in {Undefined, ""}
                           THEN "gemini-3-flash-preview" ELSE req.body.model)
    /\ genRequest.generationConfig =
         [temperature |-> 90, topK |-> 40, topP |-> 95, maxOutputTokens |-> 2048]
    /\ Len(SystemPrompt) >= 2
    /\ SubSeq(SystemPrompt, 1, 2) = PersonaTemplate \o <<"\n\n">>
    /\ Len(SystemPrompt) = 2 \/ Len(SystemPrompt) = Len(retrievedContext) + 4

C14_Witness ==
  /\ genCalls = 1
  /\ embedState = "badJson"
  /\ Len(genRequest.contents) = 3
  /\ genRequest.model = "gemini-pro"

UpstreamBodies == {EmbeddingErrorBody, GeminiErrorBody}
NoUpstreamBody ==
  \A f \in DOMAIN response.body :
    \A i \in 1..Len(response.body[f]) : response.body[f][i] \notin UpstreamBodies

ExposedMessages ==
  {ApiKeyMissingMessage, MissingMessage, FetchFailure, BodyReadFailure, JsonSyntaxFailure,
   <<"Gemini API error: ", "429">>, <<"Gemini API error: ", "503">>}

C16_EmptyResultIsNotFailure ==
  searchState = "empty" =>
    /\ Len(documents) = 0
    /\ ~StrTruthy(retrievedContext)
    /\ genCalls = 1
    /\ ~HeadingIn(SystemPrompt)
    /\ (pc = "done" /\ genState = "replied") => ReplyResult

C16_Witness ==
  /\ pc = "done"
  /\ searchState = "empty"
  /\ corpus = <<>>
  /\ ReplyResult

LegacyOrigin == req.origin = "https://vibe-coding-chat.example"
NoCallAtAll == userLookups = 0 /\ bodyReads = 0 /\ NoExternalCall

\* C17: a chat request from the legacy origin is answered with the 403
\* notice and makes no user lookup, no body read and no embedding, search or
\* generation call.
C17_LegacyOriginBlocked ==
  (LegacyOrigin /\ ChatRequest) =>
    /\ NoCallAtAll
    /\ pc \in {"start", "done"}
    /\ pc = "done" => (response.status = 403 /\ response = MigratedResponse)

C17_Witness ==
  /\ pc = "done"
  /\ LegacyOrigin
  /\ req.method = "POST"
  /\ req.authorization # Undefined
  /\ req.body.message = "Hello"
  /\ response.status = 403

\* the response as a function of the request without its Authorization
\* header, of the API key and of what the generation service answered
ResponseWithoutAuth ==
  IF req.method = "OPTIONS" THEN PreflightResponse
  ELSE IF LegacyOrigin THEN MigratedResponse
  ELSE IF ~geminiApiKey THEN ErrorResponse(ApiKeyMissingMessage)
  ELSE IF ~req.body.valid THEN ErrorResponse(JsonSyntaxFailure)
  ELSE IF req.body.message \in {Undefined, ""} THEN ErrorResponse(MissingMessage)
  ELSE CASE genState = "threw" -> ErrorResponse(FetchFailure)
         [] genState = "notOk" -> ErrorResponse(<<"Gemini API error: ", StatusText(geminiStatus)>>)
         [] genState = "errorBodyLost" -> ErrorResponse(BodyReadFailure)
         [] genState = "badJson" -> ErrorResponse(JsonSyntaxFailure)
         [] genState = "replied" ->
              ReplyResponse(<<IF candidateText \in {Undefined, ""}
                              THEN FallbackReply ELSE candidateText>>)
         [] OTHER -> NoResponse

PassesGuards ==
  /\ req.method # "OPTIONS"
  /\ ~LegacyOrigin
  /\ geminiApiKey
  /\ req.body.valid
  /\ req.body.message \notin {Undefined, ""}

\* C18: the Authorization header and the result of the user lookup decide
\* nothing: the response is the one given by the rest of the request, the
\* API key and the services' answers; the embedding, search and generation
\* calls are made exactly when the rest of the request passes the guards;
\* the generation request is the one given by the request body; a request
\* whose lookup yields no user is not rejected.
C18_UserLookupChangesNothing ==
  /\ pc = "done" => response = ResponseWithoutAuth
  /\ ~PassesGuards => NoExternalCall
  /\ (PassesGuards /\ pc \notin {"start", "getUser", "readBody"}) => embedCalls = 1
  /\ searchCalls = (IF embedState = "vector" THEN 1 ELSE 0)
  /\ genCalls = 1 => ConversationOf(req.body, genRequest.contents)

C18_Witness ==
  /\ pc = "done"
  /\ req.authorization # Undefined
  /\ userLookups = 1
  /\ user = Undefined
  /\ ReplyResult

\* C19: when the API key is not configured, a chat request ends with an
\* error result (the error "GEMINI_API_KEY not configured", or the 403 of
\* the legacy-origin block that comes first); the body is not read and no
\* embedding, search or generation call is made.
C19_NoKeyNoBodyRead ==
  (~geminiApiKey /\ ChatRequest) =>
    /\ bodyReads = 0
    /\ NoExternalCall
    /\ pc \in {"start", "getUser", "done"}
    /\ pc = "done" =>
         /\ FailureResult
         /\ ~LegacyOrigin => response = ErrorResponse(ApiKeyMissingMessage)

C19_Witness ==
  /\ pc = "done"
  /\ ~geminiApiKey
  /\ userLookups = 1
  /\ req.body.valid
  /\ req.body.message = "Hello"
  /\ response = ErrorResponse(ApiKeyMissingMessage)

==========================================================================
